---- MODULE Spec2Model ----
(***************************************************************************)
(* BCF.js: the versioned container codec.  BcfReader.read turns the bytes   *)
(* of a zip archive into a Project / Markup / Topic / Viewpoint graph; the  *)
(* writer is its inverse.  The reader (src/src/BcfReader.ts) is modelled    *)
(* step by step between its suspension points; the writer, the version      *)
(* strategy (helpers) and the XML and archive libraries are not part of the *)
(* sources at hand and are modelled from the specification.                 *)
(***************************************************************************)
EXTENDS Naturals, Sequences, FiniteSets

(***************************************************************************)
(* Bounds of the model.                                                     *)
(***************************************************************************)
\* number of read calls issued in one behaviour
MaxCalls == 2
\* number of reader instances
MaxReaders == 2
\* number of client edits, of archive tamperings, of accessor invocations
MaxEdits == 1
MaxTampers == 1
MaxInvokes == 2

Calls == 1..MaxCalls
Readers == 1..MaxReaders

(***************************************************************************)
(* Values.  A JavaScript string that may be undefined is a string or        *)
(* Undefined; an optional file name is a file <<stem, ext>> or NoFile.      *)
(***************************************************************************)
Undefined == "<undefined>"
NoFile == <<>>
Falsy(s) == s = Undefined \/ s = ""

\* an entry path "<dir>/<stem>.<ext>": <<dir, stem, ext>>, dir "" at the root
PathOf(dir, file) == <<dir>> \o file

\* String.prototype.endsWith on entry names, for the suffixes read uses
EndsWith(name, suffix) ==
    CASE suffix = ".bcf" -> name[3] = "bcf"
      [] suffix = ".version" -> name[3] = "version"
      [] suffix = ".bcfp" -> name[3] = "bcfp"
      [] suffix = "extensions.xsd" -> name[2] = "extensions" /\ name[3] = "xsd"
      [] OTHER -> FALSE

RECURSIVE SeqIndex(_, _, _)
\* first index i >= from with s[i].name = name, 0 when there is none
SeqIndex(s, name, from) ==
    IF from > Len(s) THEN 0
    ELSE IF s[from].name = name THEN from
    ELSE SeqIndex(s, name, from + 1)

\* archive[name] on an unzipped archive (a sequence of [name, data] entries
\* with distinct names): <<data>> or <<>> for undefined
ArchiveGet(archive, name) ==
    LET k == SeqIndex(archive, name, 1)
    IN IF k = 0 THEN <<>> ELSE <<archive[k].data>>

HasEntry(archive, name) == SeqIndex(archive, name, 1) # 0

\* btoa(String.fromCharCode(...bytes)) and its inverse
Base64(bytes) == [base64 |-> bytes]
Base64Decode(s) == s.base64

(***************************************************************************)
(* Documents.  An entry's data is an XML document or binary bytes.  The XML *)
(* documents carry the element names of the BCF schema; an optional element *)
(* is a sequence of length 0 or 1.                                          *)
(***************************************************************************)
Binary(bytes) == [kind |-> "bin", bytes |-> bytes]
MalformedDoc == [kind |-> "malformed"]

\* bcf.version: <Version><DetailedVersion>v</DetailedVersion></Version>
VersionDoc(v) == [kind |-> "xml", Version |-> <<[DetailedVersion |-> v]>>]

\* project.bcfp: <ProjectExtension><Project ProjectId=id><Name>n</Name>...
ProjectDoc(id, name) ==
    [kind |-> "xml",
     ProjectExtension |-> <<[Project |-> <<[ProjectId |-> <<id>>, Name |-> <<name>>]>>]>>]

\* XMLParser.parse(new TextDecoder().decode(data)): the tagged tree of a
\* well-formed document; a ParseError on anything else
XMLParse(data) ==
    IF data.kind = "xml" THEN [err |-> "", tree |-> data]
    ELSE [err |-> "ParseError", tree |-> data]

\* the child element `tag` of a parsed node: <<child>> or <<>> (undefined)
Child(node, tag) == IF tag \in DOMAIN node THEN node[tag] ELSE <<>>

(***************************************************************************)
(* Version strategy (helpers): markup and viewpoint documents.              *)
(***************************************************************************)
\* serializeMarkup(Header, Topic) -> xmlText
SerializeMarkup(header, topic) ==
    [kind |-> "xml",
     Markup |-> <<[Header |-> header,
                   Topic |-> <<[Guid |-> topic.guid,
                                TopicType |-> topic.topic_type,
                                TopicStatus |-> topic.topic_status,
                                Title |-> topic.title,
                                Description |-> topic.description,
                                CreationAuthor |-> topic.creation_author,
                                CreationDate |-> topic.creation_date,
                                Viewpoints |->
                                  [i \in 1..Len(topic.viewpoints) |->
                                     [Viewpoint |-> topic.viewpoints[i].viewpoint,
                                      Snapshot |-> topic.viewpoints[i].snapshot]]]>>]>>]

\* helpers.GetMarkup(text) -> { header, topic }; SchemaMismatchError when the
\* Markup or Topic element is absent
GetMarkup(data) ==
    LET p == XMLParse(data)
        m == Child(p.tree, "Markup")
        t == IF m = <<>> THEN <<>> ELSE Child(m[1], "Topic")
    IN IF p.err # "" THEN [err |-> p.err]
       ELSE IF m = <<>> \/ t = <<>> THEN [err |-> "SchemaMismatchError"]
       ELSE [err |-> "",
             header |-> m[1].Header,
             topic |-> [guid |-> t[1].Guid,
                        topic_type |-> t[1].TopicType,
                        topic_status |-> t[1].TopicStatus,
                        title |-> t[1].Title,
                        description |-> t[1].Description,
                        creation_author |-> t[1].CreationAuthor,
                        creation_date |-> t[1].CreationDate,
                        viewpoints |->
                          [i \in 1..Len(t[1].Viewpoints) |->
                             [viewpoint |-> t[1].Viewpoints[i].Viewpoint,
                              snapshot |-> t[1].Viewpoints[i].Snapshot]]]]

\* serializeViewpoint(Viewpoint) -> xmlText
SerializeViewpoint(info) == [kind |-> "xml", VisualizationInfo |-> <<info>>]

\* helpers.GetViewpoint(text) -> VisualizationInfo
GetViewpoint(data) ==
    LET p == XMLParse(data)
        v == Child(p.tree, "VisualizationInfo")
    IN IF p.err # "" THEN [err |-> p.err]
       ELSE IF v = <<>> THEN [err |-> "SchemaMismatchError"]
       ELSE [err |-> "", info |-> v[1]]

(***************************************************************************)
(* Snapshot accessors.  Closure(...) is the environment the arrow function  *)
(* of parseViewpoints captures: the Markup (its reader and its topic) and   *)
(* the topic's viewpoint entry; `by` names the read call that built it.  A  *)
(* client-made Viewpoint carries its bytes, or nothing.                     *)
(***************************************************************************)
NoAccessor ==
    [bound |-> "none", reader |-> 0, by |-> 0, guid |-> "", snapshot |-> NoFile,
     bytes |-> Binary("")]
BytesAccessor(bytes) == [NoAccessor EXCEPT !.bound = "bytes", !.bytes = bytes]
Closure(r, c, guid, snapshot) ==
    [NoAccessor EXCEPT !.bound = "reader", !.reader = r, !.by = c, !.guid = guid,
                       !.snapshot = snapshot]

(***************************************************************************)
(* Archive library and writer.                                              *)
(***************************************************************************)
\* zipSync(entries) and the bytes of something that is no zip archive
Zip(entries) == [zip |-> TRUE, entries |-> entries]
Garbage == [zip |-> FALSE, entries |-> <<>>]

\* unzipSync(data): the entries in archive order, or an ArchiveError
Unzip(data) ==
    IF data.zip THEN [err |-> "", archive |-> data.entries]
    ELSE [err |-> "ArchiveError", archive |-> <<>>]

\* put(path, blob): DuplicatePathError when the path is populated already
Put(c, name, data) ==
    IF c.err # "" THEN c
    ELSE IF HasEntry(c.entries, name) THEN [c EXCEPT !.err = "DuplicatePathError"]
    ELSE [c EXCEPT !.entries = Append(@, [name |-> name, data |-> data])]

\* invariant I1: every Topic.guid is non-empty and unique within the Project
ValidGuids(project) ==
    /\ \A i \in DOMAIN project.markups : ~Falsy(project.markups[i].topic.guid)
    /\ \A i, j \in DOMAIN project.markups :
          project.markups[i].topic.guid = project.markups[j].topic.guid => i = j

RECURSIVE WriteViewpoints(_, _, _, _)
\* viewpoints j.. of one Markup, `yield`[j] being what the j-th Viewpoint's
\* snapshot accessor yields (<<bytes>> or <<>>)
WriteViewpoints(c, markup, yield, j) ==
    IF j > Len(markup.viewpoints) THEN c
    ELSE LET ref == markup.topic.viewpoints[j]
             c1 == Put(c, PathOf(markup.topic.guid, ref.viewpoint),
                       SerializeViewpoint(markup.viewpoints[j].info))
             c2 == IF ref.snapshot # NoFile /\ yield[j] # <<>>
                   THEN Put(c1, PathOf(markup.topic.guid, ref.snapshot), yield[j][1])
                   ELSE c1
         IN WriteViewpoints(c2, markup, yield, j + 1)

RECURSIVE WriteMarkups(_, _, _, _)
WriteMarkups(c, project, yields, i) ==
    IF i > Len(project.markups) THEN c
    ELSE LET m == project.markups[i]
             c1 == Put(c, PathOf(m.topic.guid, <<"markup", "bcf">>),
                       SerializeMarkup(m.header, m.topic))
         IN WriteMarkups(WriteViewpoints(c1, m, yields[i], 1), project, yields, i + 1)

\* write(project) -> bytes; yields[i][j] is what the accessor of Viewpoint j
\* of Markup i yields when the writer invokes it
Write(project, yields) ==
    IF ~ValidGuids(project) THEN [err |-> "ValidationError", bytes |-> Garbage]
    ELSE LET c0 == [err |-> "", entries |-> <<>>]
             c1 == Put(c0, <<"", "project", "bcfp">>,
                       ProjectDoc(project.project_id, project.name))
             c2 == Put(c1, <<"", "bcf", "version">>, VersionDoc(project.version))
             c3 == WriteMarkups(c2, project, yields, 1)
         IN IF c3.err # "" THEN [err |-> c3.err, bytes |-> Garbage]
            ELSE [err |-> "", bytes |-> Zip(c3.entries)]

(***************************************************************************)
(* BcfReader (src/src/BcfReader.ts).  A reader is its fields; a read call   *)
(* is the locals of one invocation of read and the place it is suspended:   *)
(*   "idle"        not invoked yet                                          *)
(*   "blob"        at `await src.arrayBuffer()`                             *)
(*   "markup"      inside markup.read(), at `await this.parseMarkup()`      *)
(*   "viewpoints"  inside markup.read(), at `await this.parseViewpoints()`  *)
(*   "done"        the promise read returned is settled                     *)
(* `logged` is what the catch block printed, `rejected` what the promise    *)
(* was rejected with; `lookups` records the getEntry calls the call made.   *)
(* `id` is the identity of the invocation, and `wrote`, `ideal` say where   *)
(* its input came from (see the client below); the code reads none of the   *)
(* three.                                                                   *)
(***************************************************************************)
\* new BcfReader(version, helpers); `id` is the object's identity
NewReader(r) == [id |-> r, bcf_archive |-> <<>>, project |-> <<>>, markups |-> <<>>]

NoSrc == [type |-> "none", bytes |-> Garbage]

IdleCall ==
    [id |-> 0, wrote |-> <<>>, ideal |-> <<>>,
     pc |-> "idle", reader |-> 0, src |-> NoSrc, data |-> <<>>, markups |-> <<>>,
     i |-> 0,
     projectId |-> "", projectName |-> "", projectVersion |-> "",
     extension_schema |-> <<>>, purged_markups |-> <<>>, markup |-> <<>>,
     logged |-> "", rejected |-> "", lookups |-> {}]

\* new Markup(reader, markupName)
NewMarkup(markupName) ==
    [markup_name |-> markupName, header |-> Undefined, topic |-> <<>>,
     viewpoints |-> <<>>]

\* BcfReader.getEntry: this.bcf_archive?.[name]
getEntry(rd, name) ==
    IF rd.bcf_archive = <<>> THEN <<>> ELSE ArchiveGet(rd.bcf_archive[1], name)

\* the catch block of read with the error thrown again after it is logged
Catch_Rethrow(call, e) == [call EXCEPT !.pc = "done", !.logged = e, !.rejected = e]

\* the descriptor branches with `throw` where the code asks "Throw an error
\* here?": a project descriptor without ProjectExtension.Project is an error
ClassifyDescriptor_Throw(acc, entry) ==
    IF EndsWith(entry.name, ".version")
    THEN LET p == XMLParse(entry.data)
             v == Child(p.tree, "Version")
         IN IF p.err # "" THEN [acc EXCEPT !.err = p.err]
            ELSE IF v = <<>> THEN [acc EXCEPT !.err = "TypeError"]
            ELSE [acc EXCEPT !.projectVersion = v[1].DetailedVersion]
    ELSE IF EndsWith(entry.name, ".bcfp")
    THEN LET p == XMLParse(entry.data)
             x == Child(p.tree, "ProjectExtension")
             pr == IF x = <<>> THEN <<>> ELSE Child(x[1], "Project")
             id == IF pr = <<>> \/ Child(pr[1], "ProjectId") = <<>>
                   THEN Undefined ELSE pr[1].ProjectId[1]
             nm == IF pr = <<>> \/ Child(pr[1], "Name") = <<>>
                   THEN Undefined ELSE pr[1].Name[1]
         IN IF p.err # "" THEN [acc EXCEPT !.err = p.err]
            ELSE IF x = <<>> \/ pr = <<>> THEN [acc EXCEPT !.err = "SchemaMismatchError"]
            ELSE [acc EXCEPT !.projectId = IF Falsy(id) THEN "" ELSE id,
                             !.projectName = IF Falsy(nm) THEN "" ELSE nm]
    ELSE IF EndsWith(entry.name, "extensions.xsd")
    THEN LET p == XMLParse(entry.data)
         IN IF p.err # "" THEN [acc EXCEPT !.err = p.err]
            ELSE [acc EXCEPT !.extension_schema = <<p.tree>>]
    ELSE acc

\* the branches of the entry loop for *.version, *.bcfp and *extensions.xsd
ClassifyDescriptor(acc, entry) ==
    IF EndsWith(entry.name, ".version")
    THEN LET p == XMLParse(entry.data)
             v == Child(p.tree, "Version")
         IN IF p.err # "" THEN [acc EXCEPT !.err = p.err]
            ELSE IF v = <<>> THEN [acc EXCEPT !.err = "TypeError"]
            ELSE [acc EXCEPT !.projectVersion = v[1].DetailedVersion]
    ELSE IF EndsWith(entry.name, ".bcfp")
    THEN LET p == XMLParse(entry.data)
             x == Child(p.tree, "ProjectExtension")
             pr == IF x = <<>> THEN <<>> ELSE Child(x[1], "Project")
             id == IF pr = <<>> \/ Child(pr[1], "ProjectId") = <<>>
                   THEN Undefined ELSE pr[1].ProjectId[1]
             nm == IF pr = <<>> \/ Child(pr[1], "Name") = <<>>
                   THEN Undefined ELSE pr[1].Name[1]
         IN IF p.err # "" THEN [acc EXCEPT !.err = p.err]
            ELSE IF x = <<>> \/ pr = <<>> THEN acc
            ELSE [acc EXCEPT !.projectId = IF Falsy(id) THEN "" ELSE id,
                             !.projectName = IF Falsy(nm) THEN "" ELSE nm]
    ELSE IF EndsWith(entry.name, "extensions.xsd")
    THEN LET p == XMLParse(entry.data)
         IN IF p.err # "" THEN [acc EXCEPT !.err = p.err]
            ELSE [acc EXCEPT !.extension_schema = <<p.tree>>]
    ELSE acc

\* ClassifyEntry with markups.unshift(name) for markups.push(name)
ClassifyEntry_Unshift(acc, entry) ==
    IF EndsWith(entry.name, ".bcf")
    THEN [acc EXCEPT !.markups = <<entry.name>> \o @]
    ELSE ClassifyDescriptor(acc, entry)

\* one iteration of `for (const [name, fileData] of Object.entries(...))`
ClassifyEntry(acc, entry) ==
    IF EndsWith(entry.name, ".bcf")
    THEN [acc EXCEPT !.markups = Append(@, entry.name)]
    ELSE ClassifyDescriptor(acc, entry)

RECURSIVE Classify(_, _, _)
\* the entry loop of read, in the archive's enumeration order; a throw ends it
Classify(archive, k, acc) ==
    IF k > Len(archive) \/ acc.err # "" THEN acc
    ELSE Classify(archive, k + 1, ClassifyEntry(acc, archive[k]))

\* the catch block of read: log the error, settle the promise normally.  An
\* error thrown inside markup.read() reaches the catch block some microtasks
\* later; the call touches no state in between, so it is settled at once.
Catch(call, e) == [call EXCEPT !.pc = "done", !.logged = e]

\* Markup.parseMarkup
parseMarkup(rd, call) ==
    LET name == call.markups[call.i]
        fileData == getEntry(rd, name)
        markup == IF fileData = <<>> THEN [err |-> "MissingEntryError"]
                  ELSE GetMarkup(fileData[1])
        looked == [call EXCEPT
                     !.lookups = @ \cup {[by |-> "parseMarkup", what |-> "markup",
                                          key |-> name]}]
    IN IF markup.err # "" THEN Catch(looked, markup.err)
       ELSE [looked EXCEPT
               !.pc = "markup",
               !.markup = <<[NewMarkup(name) EXCEPT !.topic = <<markup.topic>>,
                                                    !.header = markup.header]>>]

\* MarkupLoop with the Project's name taken from projectId
MarkupLoop_NameFromId(rd, call) ==
    IF call.i <= Len(call.markups)
    THEN [rd |-> rd, call |-> parseMarkup(rd, call)]
    ELSE [rd |-> [rd EXCEPT !.project =
                    <<[by |-> call.id,
                       project_id |-> call.projectId,
                       name |-> call.projectId,
                       version |-> call.projectVersion,
                       markups |-> call.purged_markups,
                       extension_schema |-> call.extension_schema]>>],
          call |-> [call EXCEPT !.pc = "done"]]

\* the head of `for (let i = 0; i < markups.length; i++)`: the next Markup is
\* created and read up to its first suspension, or the Project is assembled
\* (`by`: the identity of the Project object is the call that made it)
MarkupLoop(rd, call) ==
    IF call.i <= Len(call.markups)
    THEN [rd |-> rd, call |-> parseMarkup(rd, call)]
    ELSE LET project ==
               [by |-> call.id,
                project_id |-> call.projectId,
                name |-> call.projectName,
                version |-> call.projectVersion,
                markups |-> call.purged_markups,
                extension_schema |-> call.extension_schema]
         IN [rd |-> [rd EXCEPT !.project = <<project>>],
             call |-> [call EXCEPT !.pc = "done"]]

\* read from `this.bcf_archive = unzipSync(data)` to the first suspension; src
\* is not read again once data is set, and the model forgets it
Open(rd, called, data) ==
    LET call == [called EXCEPT !.data = <<data>>, !.src = NoSrc]
        z == Unzip(data)
        rd1 == [rd EXCEPT !.bcf_archive = <<z.archive>>]
        acc == Classify(z.archive, 1,
                        [markups |-> <<>>, projectId |-> "", projectName |-> "",
                         projectVersion |-> "", extension_schema |-> <<>>,
                         err |-> ""])
    IN IF z.err # "" THEN [rd |-> rd, call |-> Catch(call, z.err)]
       ELSE IF acc.err # "" THEN [rd |-> rd1, call |-> Catch(call, acc.err)]
       ELSE MarkupLoop(rd1, [call EXCEPT !.markups = acc.markups,
                                         !.projectId = acc.projectId,
                                         !.projectName = acc.projectName,
                                         !.projectVersion = acc.projectVersion,
                                         !.extension_schema = acc.extension_schema,
                                         !.i = 1])

\* read from its invocation to the first suspension: the input conversion
Begin(rd, call) ==
    IF call.src.type \in {"ArrayBuffer", "Uint8Array"}
    THEN Open(rd, call, call.src.bytes)
    ELSE IF call.src.type = "Blob" THEN [rd |-> rd, call |-> [call EXCEPT !.pc = "blob"]]
    ELSE [rd |-> rd, call |-> Catch(call, "UnsupportedInputError")]

RECURSIVE parseViewpointsFrom_Skip(_, _, _, _, _)
\* parseViewpoints with `continue` for `throw` when the viewpoint file is absent
parseViewpointsFrom_Skip(rd, call, mk, j, looked) ==
    LET topic == mk.topic[1] IN
    IF j > Len(topic.viewpoints) THEN [err |-> "", markup |-> mk, lookups |-> looked]
    ELSE LET entry == topic.viewpoints[j]
             key == PathOf(topic.guid, entry.viewpoint)
             fileData == getEntry(rd, key)
             seen == looked \cup {[by |-> "parseViewpoints", what |-> "viewpoint",
                                   key |-> key]}
             vp == IF fileData = <<>> THEN [err |-> "MissingEntryError"]
                   ELSE GetViewpoint(fileData[1])
         IN IF fileData = <<>>
            THEN parseViewpointsFrom_Skip(rd, call, mk, j + 1, seen)
            ELSE IF vp.err # "" THEN [err |-> vp.err, markup |-> mk, lookups |-> seen]
            ELSE parseViewpointsFrom_Skip(
                   rd, call,
                   [mk EXCEPT !.viewpoints =
                      Append(@, [info |-> vp.info,
                                 snapshot |-> entry.snapshot,
                                 getSnapshot |-> Closure(rd.id, call.id, topic.guid,
                                                         entry.snapshot)])],
                   j + 1, seen)

RECURSIVE parseViewpointsFrom_Eager(_, _, _, _, _)
\* parseViewpoints with the snapshot entry fetched, and required, by the read
parseViewpointsFrom_Eager(rd, call, mk, j, looked) ==
    LET topic == mk.topic[1] IN
    IF j > Len(topic.viewpoints) THEN [err |-> "", markup |-> mk, lookups |-> looked]
    ELSE LET entry == topic.viewpoints[j]
             key == PathOf(topic.guid, entry.viewpoint)
             fileData == getEntry(rd, key)
             shot == IF entry.snapshot = NoFile THEN <<>>
                     ELSE getEntry(rd, PathOf(topic.guid, entry.snapshot))
             seen == looked
                     \cup {[by |-> "parseViewpoints", what |-> "viewpoint", key |-> key]}
                     \cup (IF entry.snapshot = NoFile THEN {}
                           ELSE {[by |-> "parseViewpoints", what |-> "snapshot",
                                  key |-> PathOf(topic.guid, entry.snapshot)]})
             vp == IF fileData = <<>> \/ (entry.snapshot # NoFile /\ shot = <<>>)
                   THEN [err |-> "MissingEntryError"]
                   ELSE GetViewpoint(fileData[1])
         IN IF vp.err # "" THEN [err |-> vp.err, markup |-> mk, lookups |-> seen]
            ELSE parseViewpointsFrom_Eager(
                   rd, call,
                   [mk EXCEPT !.viewpoints =
                      Append(@, [info |-> vp.info,
                                 snapshot |-> entry.snapshot,
                                 getSnapshot |-> Closure(rd.id, call.id, topic.guid,
                                                         entry.snapshot)])],
                   j + 1, seen)

RECURSIVE parseViewpointsFrom(_, _, _, _, _)
\* the loop of Markup.parseViewpoints from index j on; mk is the Markup, call
\* the read call that is reading it
parseViewpointsFrom(rd, call, mk, j, looked) ==
    LET topic == mk.topic[1] IN
    IF j > Len(topic.viewpoints) THEN [err |-> "", markup |-> mk, lookups |-> looked]
    ELSE LET entry == topic.viewpoints[j]
             key == PathOf(topic.guid, entry.viewpoint)
             fileData == getEntry(rd, key)
             seen == looked \cup {[by |-> "parseViewpoints", what |-> "viewpoint",
                                   key |-> key]}
             vp == IF fileData = <<>> THEN [err |-> "MissingEntryError"]
                   ELSE GetViewpoint(fileData[1])
         IN IF vp.err # "" THEN [err |-> vp.err, markup |-> mk, lookups |-> seen]
            ELSE parseViewpointsFrom(
                   rd, call,
                   [mk EXCEPT !.viewpoints =
                      Append(@, [info |-> vp.info,
                                 snapshot |-> entry.snapshot,
                                 getSnapshot |-> Closure(rd.id, call.id, topic.guid,
                                                         entry.snapshot)])],
                   j + 1, seen)

\* Markup.parseViewpoints, resumed after `await this.parseMarkup()`
parseViewpoints(rd, call) ==
    LET r == parseViewpointsFrom(rd, call, call.markup[1], 1, {})
        looked == [call EXCEPT !.lookups = @ \cup r.lookups]
    IN IF r.err # "" THEN Catch(looked, r.err)
       ELSE [looked EXCEPT !.pc = "viewpoints", !.markup = <<r.markup>>]

\* AfterMarkupRead with purged_markups assigned instead of pushed to
AfterMarkupRead_Overwrite(rd, call) ==
    LET markup == call.markup[1]
        purged == [header |-> markup.header, topic |-> markup.topic[1],
                   viewpoints |-> markup.viewpoints]
    IN MarkupLoop([rd EXCEPT !.markups = Append(@, markup)],
                  [call EXCEPT !.purged_markups = <<purged>>,
                               !.markup = <<>>,
                               !.i = @ + 1])

\* read resumed after `await markup.read()`: the Markup is pushed, the purged
\* copy kept, and the loop goes on
AfterMarkupRead(rd, call) ==
    LET markup == call.markup[1]
        purged == [header |-> markup.header, topic |-> markup.topic[1],
                   viewpoints |-> markup.viewpoints]
    IN MarkupLoop([rd EXCEPT !.markups = Append(@, markup)],
                  [call EXCEPT !.purged_markups = Append(@, purged),
                               !.markup = <<>>,
                               !.i = @ + 1])

\* Markup.getSnapshot(guid) of the Markup a closure captured, on reader rd
getSnapshot(rd, acc) ==
    IF acc.snapshot = NoFile THEN [value |-> <<>>, lookups |-> {}]
    ELSE LET key == PathOf(acc.guid, acc.snapshot)
             fileData == getEntry(rd, key)
         IN [value |-> IF fileData = <<>> THEN <<>> ELSE <<Base64(fileData[1])>>,
             lookups |-> {[by |-> "getSnapshot", what |-> "snapshot", key |-> key]}]

(***************************************************************************)
(* The client's Projects.                                                   *)
(***************************************************************************)
ViewpointFile(n) == IF n = 1 THEN <<"viewpoint1", "bcfv">> ELSE <<"viewpoint2", "bcfv">>
SnapshotFile(n) == IF n = 1 THEN <<"snapshot1", "png">> ELSE <<"snapshot2", "png">>

\* a Viewpoint with a snapshot of the given bytes, and one without
Shot(n, bytes) ==
    [ref |-> [viewpoint |-> ViewpointFile(n), snapshot |-> SnapshotFile(n)],
     vp |-> [info |-> IF n = 1 THEN "camera1" ELSE "camera2",
             snapshot |-> SnapshotFile(n),
             getSnapshot |-> BytesAccessor(Binary(bytes))]]
NoShot(n) ==
    [ref |-> [viewpoint |-> ViewpointFile(n), snapshot |-> NoFile],
     vp |-> [info |-> IF n = 1 THEN "camera1" ELSE "camera2",
             snapshot |-> NoFile,
             getSnapshot |-> NoAccessor]]

MkMarkup(guid, n, views) ==
    [header |-> IF n = 1 THEN "H1" ELSE Undefined,
     topic |-> [guid |-> guid,
                topic_type |-> IF n = 1 THEN "Issue" ELSE "Request",
                topic_status |-> IF n = 1 THEN "Open" ELSE "In Progress",
                title |-> IF n = 1 THEN "T1" ELSE "T2",
                description |-> IF n = 1 THEN "D1" ELSE "D2",
                creation_author |-> IF n = 1 THEN "A1" ELSE "A2",
                creation_date |-> IF n = 1 THEN "2024-01-01T00:00:00Z"
                                  ELSE "2024-01-02T00:00:00Z",
                viewpoints |-> [j \in 1..Len(views) |-> views[j].ref]],
     viewpoints |-> [j \in 1..Len(views) |-> views[j].vp]]

MkProject(id, name, markups) ==
    [project_id |-> id, name |-> name, version |-> "2.1", markups |-> markups]

InitProjects ==
    { MkProject("p0", "", <<>>),
      MkProject("p2", "Demo", <<MkMarkup("g1", 1, <<Shot(1, "png1"), NoShot(2)>>),
                                MkMarkup("g2", 2, <<>>)>>),
      MkProject("p3", "Other", <<MkMarkup("g2", 2, <<>>), MkMarkup("g1", 1, <<>>)>>),
      MkProject("p4", "Dup", <<MkMarkup("g1", 1, <<>>), MkMarkup("g1", 2, <<>>)>>),
      MkProject("p5", "NoGuid", <<MkMarkup("", 1, <<>>)>>) }

\* the fields of a Project that a write/read cycle is to preserve
PlainTopic(topic) ==
    [guid |-> topic.guid, topic_type |-> topic.topic_type,
     topic_status |-> topic.topic_status, title |-> topic.title,
     description |-> topic.description, creation_author |-> topic.creation_author,
     creation_date |-> topic.creation_date]
Plain(project) ==
    [project_id |-> project.project_id, name |-> project.name,
     topics |-> [i \in DOMAIN project.markups |-> PlainTopic(project.markups[i].topic)]]

(***************************************************************************)
(* State.  trail.doc is <<>>, or the number of write/read cycles the        *)
(* Project held has been through and the fields it is to have: those of the *)
(* initial Project with the client's edits applied.  trail.file is the      *)
(* Project the bytes held were written from, and what trail.doc was then.   *)
(***************************************************************************)
VARIABLES
    readers,    \* the BcfReader instances
    calls,      \* the invocations of read
    doc,        \* the Project the client holds
    file,       \* the bytes the client holds: <<>> or <<bytes>>
    writeError, \* what the last write failed with, "" when it returned bytes
    observed,   \* what invocations of snapshot accessors returned and looked up
    budget,     \* edits, tamperings and accessor invocations so far
    trail       \* where doc and file come from (read by no action's guard)

vars == <<readers, calls, doc, file, writeError, observed, budget, trail>>

Init ==
    /\ readers = [r \in Readers |-> NewReader(r)]
    /\ calls = [c \in Calls |-> IdleCall]
    /\ doc \in InitProjects
    /\ file = <<>>
    /\ writeError = ""
    /\ observed = {}
    /\ budget = [edits |-> 0, tampers |-> 0, invokes |-> 0]
    /\ trail = [doc |-> <<[cycles |-> 0, plain |-> Plain(doc)]>>,
                file |-> [wrote |-> <<>>, ideal |-> <<>>]]

\* what a snapshot accessor returns when invoked now
Invoke(acc) ==
    IF acc.bound = "reader" THEN getSnapshot(readers[acc.reader], acc)
    ELSE IF acc.bound = "bytes" THEN [value |-> <<Base64(acc.bytes)>>, lookups |-> {}]
    ELSE [value |-> <<>>, lookups |-> {}]

(***************************************************************************)
(* The client: it writes the Project it holds, hands the bytes to a reader,  *)
(* takes the reader's Project, edits it, and invokes snapshot accessors.    *)
(***************************************************************************)
InFlight(c) == calls[c].pc \in {"blob", "markup", "viewpoints"}

\* no read is suspended: the client has awaited every read it started
Quiet == \A c \in Calls : ~InFlight(c)

\* the (markup, viewpoint) positions of a Project
Slots(project) ==
    UNION { {<<i, j>> : j \in DOMAIN project.markups[i].viewpoints} :
              i \in DOMAIN project.markups }

\* writer.write(doc): the writer invokes every snapshot accessor of doc
ClientWrite ==
    LET got == [i \in DOMAIN doc.markups |->
                  [j \in DOMAIN doc.markups[i].viewpoints |->
                     Invoke(doc.markups[i].viewpoints[j].getSnapshot)]]
        yields == [i \in DOMAIN got |->
                     [j \in DOMAIN got[i] |->
                        IF got[i][j].value = <<>> THEN <<>>
                        ELSE <<Base64Decode(got[i][j].value[1])>>]]
        w == Write(doc, yields)
    IN /\ Quiet
       /\ file' = IF w.err = "" THEN <<w.bytes>> ELSE file
       /\ writeError' = w.err
       /\ trail' = IF w.err = "" THEN [trail EXCEPT !.file = [wrote |-> <<doc>>,
                                                             ideal |-> trail.doc]]
                   ELSE trail
       /\ UNCHANGED <<readers, calls, doc, observed, budget>>

\* the entries without the k-th, and with the k-th entry's data replaced
DropEntry(entries, k) ==
    SubSeq(entries, 1, k - 1) \o SubSeq(entries, k + 1, Len(entries))
ReplaceData(entries, k, data) == [entries EXCEPT ![k].data = data]

\* a project descriptor lacking an element, a version descriptor without its
\* Version element: what the k-th entry's data becomes
Stripped(data, what) ==
    CASE what = "ProjectExtension" -> [kind |-> "xml"]
      [] what = "Project" -> [kind |-> "xml", ProjectExtension |-> <<[Extensions |-> <<>>]>>]
      [] what = "ProjectId" ->
           [kind |-> "xml",
            ProjectExtension |->
              <<[Project |-> <<[Name |-> data.ProjectExtension[1].Project[1].Name]>>]>>]
      [] what = "Name" ->
           [kind |-> "xml",
            ProjectExtension |->
              <<[Project |->
                   <<[ProjectId |-> data.ProjectExtension[1].Project[1].ProjectId]>>]>>]
      [] what = "Version" -> [kind |-> "xml"]
      [] OTHER -> MalformedDoc

\* other content at the same path: other bytes for a binary entry, another
\* camera for a viewpoint document, a malformed document otherwise
Forged(data) ==
    IF data.kind = "bin" THEN Binary("other")
    ELSE IF "VisualizationInfo" \in DOMAIN data THEN SerializeViewpoint("camera9")
    ELSE MalformedDoc

StripKinds(name) ==
    IF EndsWith(name, ".bcfp") THEN {"ProjectExtension", "Project", "ProjectId", "Name"}
    ELSE IF EndsWith(name, ".version") THEN {"Version"}
    ELSE {}

\* the containers one alteration away from the bytes held
Tampered(bytes) ==
    { Zip(DropEntry(bytes.entries, k)) : k \in DOMAIN bytes.entries }
    \cup { Zip(ReplaceData(bytes.entries, k, Forged(bytes.entries[k].data))) :
             k \in DOMAIN bytes.entries }
    \cup UNION { { Zip(ReplaceData(bytes.entries, k, Stripped(bytes.entries[k].data, w))) :
                     w \in StripKinds(bytes.entries[k].name) } :
                 k \in DOMAIN bytes.entries }
    \cup { Zip(bytes.entries \o <<[name |-> <<"", "extensions", "xsd">>,
                                   data |-> [kind |-> "xml", schema |-> <<>>]]>>),
           Garbage }

\* the client's edits: the name, and a field of the first Topic other than guid
Edited(project, field) ==
    CASE field = "name" -> [project EXCEPT !.name = "Renamed"]
      [] field = "title" -> [project EXCEPT !.markups[1].topic.title = "Edited"]
      [] OTHER -> project
EditedPlain(plain, field) ==
    CASE field = "name" -> [plain EXCEPT !.name = "Renamed"]
      [] field = "title" -> [plain EXCEPT !.topics[1].title = "Edited"]
      [] OTHER -> plain

ClientEdit ==
    /\ Quiet
    /\ budget.edits < MaxEdits
    /\ \E field \in {"name"} \cup (IF doc.markups = <<>> THEN {} ELSE {"title"}) :
          /\ doc' = Edited(doc, field)
          /\ trail' = IF trail.doc = <<>> THEN trail
                      ELSE [trail EXCEPT !.doc[1].plain = EditedPlain(@, field)]
    /\ budget' = [budget EXCEPT !.edits = @ + 1]
    /\ UNCHANGED <<readers, calls, file, writeError, observed>>

\* project = reader.project
ClientTake(r) ==
    /\ Quiet
    /\ readers[r].project # <<>>
    /\ LET p == readers[r].project[1]
           was == calls[p.by].ideal
       IN /\ doc' = [project_id |-> p.project_id, name |-> p.name,
                     version |-> p.version, markups |-> p.markups]
          /\ trail' = [trail EXCEPT !.doc = IF was = <<>> THEN <<>>
                                            ELSE <<[was[1] EXCEPT !.cycles = @ + 1]>>]
    /\ UNCHANGED <<readers, calls, file, writeError, observed, budget>>

\* await viewpoint.getSnapshot() on a Viewpoint, built by a read, of the
\* Project held
ClientInvoke(i, j) ==
    /\ Quiet
    /\ budget.invokes < MaxInvokes
    /\ <<i, j>> \in Slots(doc)
    /\ doc.markups[i].viewpoints[j].getSnapshot.bound = "reader"
    /\ LET acc == doc.markups[i].viewpoints[j].getSnapshot
           got == Invoke(acc)
       IN observed' = observed \cup {[accessor |-> acc, value |-> got.value,
                                      lookups |-> got.lookups]}
    /\ budget' = [budget EXCEPT !.invokes = @ + 1]
    /\ UNCHANGED <<readers, calls, doc, file, writeError, trail>>

(***************************************************************************)
(* The reader: one action per stretch of read between two suspensions.      *)
(***************************************************************************)
\* what a caller may pass as src: the declared types, and a value of no
\* declared type
SrcTypes == {"ArrayBuffer", "Uint8Array", "Blob", "string", "number"}

\* the result of a stretch of call c on reader r
Step(c, r, res) ==
    /\ readers' = [readers EXCEPT ![r] = res.rd]
    /\ calls' = [calls EXCEPT ![c] = res.call]
    /\ UNCHANGED <<doc, file, writeError, observed, trail>>

IsStringy(type) == type \in {"string", "number"}

\* reader.read(src): calls are numbered in the order they are made, readers in
\* the order they are first used; src is the bytes the client holds, or a
\* container one alteration away from them
Read(c, r, type) ==
    /\ calls[c].pc = "idle"
    /\ \A d \in Calls : d < c => calls[d].pc # "idle"
    /\ \A q \in Readers : q < r => \E d \in Calls : calls[d].reader = q
    /\ file # <<>>
    /\ \E bytes \in {file[1]} \cup (IF budget.tampers < MaxTampers /\ ~IsStringy(type)
                                    THEN Tampered(file[1]) ELSE {}) :
          LET src == IF IsStringy(type) THEN [type |-> type, bytes |-> Garbage]
                     ELSE [type |-> type, bytes |-> bytes]
              pure == bytes = file[1] /\ ~IsStringy(type)
          IN /\ Step(c, r, Begin(readers[r],
                                 [calls[c] EXCEPT
                                    !.id = c, !.reader = r, !.src = src,
                                    !.wrote = IF pure THEN trail.file.wrote ELSE <<>>,
                                    !.ideal = IF pure THEN trail.file.ideal ELSE <<>>]))
             /\ budget' = [budget EXCEPT !.tampers = IF bytes = file[1] THEN @ ELSE @ + 1]

\* `await src.arrayBuffer()` returns
BlobReady(c) ==
    /\ calls[c].pc = "blob"
    /\ UNCHANGED budget
    /\ Step(c, calls[c].reader,
            Open(readers[calls[c].reader], calls[c], calls[c].src.bytes))

\* `await this.parseMarkup()` returns: parseViewpoints runs
ResumeMarkup(c) ==
    /\ calls[c].pc = "markup"
    /\ UNCHANGED budget
    /\ Step(c, calls[c].reader,
            [rd |-> readers[calls[c].reader],
             call |-> parseViewpoints(readers[calls[c].reader], calls[c])])

\* `await markup.read()` returns
ResumeRead(c) ==
    /\ calls[c].pc = "viewpoints"
    /\ UNCHANGED budget
    /\ Step(c, calls[c].reader, AfterMarkupRead(readers[calls[c].reader], calls[c]))

ReaderStep ==
    \E c \in Calls : BlobReady(c) \/ ResumeMarkup(c) \/ ResumeRead(c)

ClientStep ==
    \/ ClientWrite
    \/ ClientEdit
    \/ \E r \in Readers : ClientTake(r)
    \/ \E i, j \in 1..2 : ClientInvoke(i, j)

\* any reader may be handed a new input at any time
Next ==
    \/ ClientStep
    \/ ReaderStep
    \/ \E c \in Calls, r \in Readers, type \in SrcTypes : Read(c, r, type)

Spec == Init /\ [][Next]_vars

\* await reader.read(src): the client calls read on a reader only when every
\* read it started on that reader has returned
ReadAwaited(c, r, type) ==
    /\ \A d \in Calls : InFlight(d) => calls[d].reader # r
    /\ Read(c, r, type)

NextAwaited ==
    \/ ClientStep
    \/ ReaderStep
    \/ \E c \in Calls, r \in Readers, type \in SrcTypes : ReadAwaited(c, r, type)

SpecAwaited == Init /\ [][NextAwaited]_vars

(***************************************************************************)
(* Properties.                                                              *)
(***************************************************************************)
Done(c) == calls[c].pc = "done"
Succeeded(c) == Done(c) /\ calls[c].logged = "" /\ calls[c].rejected = ""
Failed(c) == Done(c) /\ ~Succeeded(c)

\* the Projects the readers expose, and the call that made each
Exposed == { readers[r].project[1] : r \in {q \in Readers : readers[q].project # <<>>} }

\* no later call has assigned the project of call c's reader
Current(c) ==
    \A d \in Calls : (d > c /\ calls[d].reader = calls[c].reader) => ~Succeeded(d)

\* the container call c opened
ArchiveOf(c) == Unzip(calls[c].data[1]).archive

\* Project p has the project_id, the name, the Topic fields and the Viewpoints,
\* in number and order, of Project q
SameContent(p, q) ==
    /\ p.project_id = q.project_id
    /\ p.name = q.name
    /\ Len(p.markups) = Len(q.markups)
    /\ \A i \in DOMAIN p.markups :
          /\ PlainTopic(p.markups[i].topic) = PlainTopic(q.markups[i].topic)
          /\ Len(p.markups[i].viewpoints) = Len(q.markups[i].viewpoints)
          /\ \A j \in DOMAIN p.markups[i].viewpoints :
                p.markups[i].viewpoints[j].info = q.markups[i].viewpoints[j].info

\* C1: round-trip identity.  A read of the bytes write(P) returned succeeds and
\* exposes a Project with P's project_id and name and, Markup by Markup, P's
\* Topic fields and P's Viewpoints in number and order.
C1_RoundTrip ==
    /\ \A c \in Calls :
          (Done(c) /\ calls[c].wrote # <<>>) =>
             /\ Succeeded(c)
             /\ Current(c) => /\ readers[calls[c].reader].project # <<>>
                              /\ readers[calls[c].reader].project[1].by = c
    /\ \A p \in Exposed :
          calls[p.by].wrote # <<>> => SameContent(p, calls[p.by].wrote[1])

\* a read of a written Project with two Markups and Viewpoints has completed
C1_Witness ==
    \E p \in Exposed :
       /\ calls[p.by].wrote # <<>>
       /\ Len(p.markups) = 2
       /\ Len(p.markups[1].viewpoints) = 2
       /\ p.markups[1].topic.guid # p.markups[2].topic.guid

\* the names of the *.bcf entries of an archive, in its enumeration order
BcfNames(archive) ==
    LET bcf == SelectSeq(archive, LAMBDA e : e.name[3] = "bcf")
    IN [i \in DOMAIN bcf |-> bcf[i].name]

\* C2: Markup count and order.  The Project read from write(P) has as many
\* Markups as P and its i-th Markup carries the Topic of P's i-th Markup; and
\* the Project read from any container lists the Topics of the container's
\* *.bcf entries in the order the container enumerates them.
C2_MarkupOrder ==
    \A p \in Exposed :
       /\ calls[p.by].wrote # <<>> =>
             /\ Len(p.markups) = Len(calls[p.by].wrote[1].markups)
             /\ \A i \in DOMAIN p.markups :
                   p.markups[i].topic = calls[p.by].wrote[1].markups[i].topic
       /\ LET names == BcfNames(ArchiveOf(p.by))
          IN /\ Len(p.markups) = Len(names)
             /\ \A i \in DOMAIN names :
                   p.markups[i].topic =
                     GetMarkup(ArchiveGet(ArchiveOf(p.by), names[i])[1]).topic

\* a written Project whose Markups are not in the order of their guids was read
C2_Witness ==
    \E p \in Exposed :
       /\ calls[p.by].wrote # <<>>
       /\ Len(p.markups) = 2
       /\ p.markups[1].topic.guid = "g2"
       /\ p.markups[2].topic.guid = "g1"

\* C3: repeated cycles.  However many times the Project a read returned is
\* written and read again, with or without edits of its name and of Topic
\* fields other than guid in between, the Project read has the project_id, the
\* Markups and guids of the first Project, the edited fields as edited and the
\* other fields as they were.
C3_Cycles ==
    \A p \in Exposed :
       calls[p.by].ideal # <<>> => Plain(p) = calls[p.by].ideal[1].plain

\* the second cycle of a Project with Markups, edited after the first
C3_Witness ==
    \E p \in Exposed :
       /\ calls[p.by].ideal # <<>>
       /\ calls[p.by].ideal[1].cycles >= 1
       /\ p.markups # <<>>
       /\ p.markups[1].topic.title = "Edited"
       /\ calls[p.by].wrote[1].markups[1].topic.title = "Edited"
       /\ \E c \in Calls : c # p.by /\ Succeeded(c) /\ calls[c].ideal # <<>>
                           /\ calls[c].ideal[1].plain.topics[1].title # "Edited"

\* the call has opened a container
Opened(c) == calls[c].data # <<>> /\ Unzip(calls[c].data[1]).err = ""

\* the Topics call c has parsed so far: those of the Markups it has finished
\* and that of the Markup it is reading
TopicsOf(c) ==
    { calls[c].purged_markups[i].topic : i \in DOMAIN calls[c].purged_markups }
    \cup (IF calls[c].markup = <<>> THEN {} ELSE {calls[c].markup[1].topic[1]})

\* the viewpoint entries of a Topic whose viewpoint file the archive lacks
MissingViewpoints(archive, topic) ==
    { j \in DOMAIN topic.viewpoints :
        ~HasEntry(archive, PathOf(topic.guid, topic.viewpoints[j].viewpoint)) }

\* the first viewpoint entry of a Topic that parseViewpoints cannot read is one
\* whose viewpoint file the archive lacks
FirstBadIsMissing(archive, topic) ==
    \E j \in MissingViewpoints(archive, topic) :
       \A k \in 1..(j - 1) :
          /\ k \notin MissingViewpoints(archive, topic)
          /\ GetViewpoint(ArchiveGet(archive,
                                     PathOf(topic.guid, topic.viewpoints[k].viewpoint))[1]).err = ""

\* C4: missing viewpoint.  A Markup whose Topic references a viewpoint file the
\* container has no entry for is never delivered, neither in a Project nor
\* among the Markups a read has finished, and reading it ends the read with
\* MissingEntryError.
C4_MissingViewpoint ==
    /\ \A p \in Exposed : \A i \in DOMAIN p.markups :
          /\ MissingViewpoints(ArchiveOf(p.by), p.markups[i].topic) = {}
          /\ Len(p.markups[i].viewpoints) = Len(p.markups[i].topic.viewpoints)
    /\ \A c \in Calls :
          /\ \A i \in DOMAIN calls[c].purged_markups :
                MissingViewpoints(ArchiveOf(c), calls[c].purged_markups[i].topic) = {}
          /\ (calls[c].pc = "viewpoints") =>
                MissingViewpoints(ArchiveOf(c), calls[c].markup[1].topic[1]) = {}
          /\ (Done(c) /\ calls[c].markup # <<>>
              /\ FirstBadIsMissing(ArchiveOf(c), calls[c].markup[1].topic[1])) =>
                calls[c].logged = "MissingEntryError"

\* a read has ended on a Markup with a missing viewpoint file
C4_Witness ==
    \E c \in Calls :
       /\ Done(c)
       /\ calls[c].markup # <<>>
       /\ MissingViewpoints(ArchiveOf(c), calls[c].markup[1].topic[1]) # {}
       /\ calls[c].logged = "MissingEntryError"

\* what the container a Viewpoint was read from holds for its snapshot
SnapshotAtOrigin(acc) ==
    IF acc.snapshot = NoFile THEN <<>>
    ELSE LET data == ArchiveGet(ArchiveOf(acc.by), PathOf(acc.guid, acc.snapshot))
         IN IF data = <<>> THEN <<>> ELSE <<Base64(data[1])>>

\* C5: snapshot accessor stability.  Every invocation of the snapshot accessor
\* of a Viewpoint a read produced returns the same value, the base64 encoding
\* of the snapshot in the container the Viewpoint was read from, whatever was
\* done in between, further reads on the same reader included.
C5_AccessorStable ==
    /\ \A o \in observed : o.value = SnapshotAtOrigin(o.accessor)
    /\ \A o1, o2 \in observed : o1.accessor = o2.accessor => o1.value = o2.value

SnapshotKeys(c) ==
    UNION { { PathOf(t.guid, t.viewpoints[j].snapshot) :
                j \in {k \in DOMAIN t.viewpoints : t.viewpoints[k].snapshot # NoFile} } :
            t \in TopicsOf(c) }

\* C7: lazy snapshot.  No getEntry call of a read is for a snapshot: a read
\* looks up markup files and viewpoint files only; the container is asked for a
\* snapshot by getSnapshot, when an accessor is invoked.
C7_LazySnapshot ==
    /\ \A c \in Calls : \A l \in calls[c].lookups :
          /\ l.what \in {"markup", "viewpoint"}
          /\ l.by \in {"parseMarkup", "parseViewpoints"}
          /\ l.key \notin SnapshotKeys(c)
    /\ \A o \in observed : \A l \in o.lookups :
          l.by = "getSnapshot" /\ l.what = "snapshot"

\* a read delivered a Viewpoint whose snapshot the container holds, having
\* looked up the viewpoint file, and the accessor, invoked later, looked up the
\* snapshot
C7_Witness ==
    \E p \in Exposed : \E i \in DOMAIN p.markups :
       \E j \in DOMAIN p.markups[i].viewpoints :
          LET key == PathOf(p.markups[i].topic.guid, p.markups[i].viewpoints[j].snapshot)
          IN /\ p.markups[i].viewpoints[j].snapshot # NoFile
             /\ HasEntry(ArchiveOf(p.by), key)
             /\ calls[p.by].lookups # {}
             /\ \E o \in observed :
                   /\ o.accessor = p.markups[i].viewpoints[j].getSnapshot
                   /\ o.lookups = {[by |-> "getSnapshot", what |-> "snapshot", key |-> key]}

\* C8: unsupported input.  A read of a string ends with UnsupportedInputError
\* reaching the caller, and no Project is produced.
C8_StringRejected ==
    \A c \in Calls :
       (Done(c) /\ calls[c].src.type = "string") =>
          /\ calls[c].rejected = "UnsupportedInputError"
          /\ \A p \in Exposed : p.by # c

\* the project descriptor and the version descriptor of an archive
Descriptors(archive, ext) ==
    { archive[k].data : k \in {n \in DOMAIN archive : archive[n].name[3] = ext} }

\* every *.bcf entry of the archive is a markup document whose viewpoint files
\* the archive holds, and every descriptor it holds is well-formed
Readable(archive) ==
    /\ \A k \in DOMAIN archive :
          archive[k].name[3] = "bcf" =>
             LET m == GetMarkup(archive[k].data)
             IN /\ m.err = ""
                /\ \A j \in DOMAIN m.topic.viewpoints :
                      LET v == ArchiveGet(archive, PathOf(m.topic.guid,
                                                          m.topic.viewpoints[j].viewpoint))
                      IN v # <<>> /\ GetViewpoint(v[1]).err = ""
    /\ \A k \in DOMAIN archive :
          archive[k].name[3] \in {"version", "bcfp", "xsd"} => archive[k].data.kind = "xml"
    /\ \A d \in Descriptors(archive, "version") : "Version" \in DOMAIN d

\* a project descriptor has ProjectExtension.Project and its child or attribute
HasProject(d) ==
    /\ "ProjectExtension" \in DOMAIN d
    /\ "Project" \in DOMAIN d.ProjectExtension[1]
HasProjectField(d, field) ==
    HasProject(d) /\ field \in DOMAIN d.ProjectExtension[1].Project[1]

\* C9: optional descriptors.  A container without project descriptor, without
\* version descriptor, or whose project descriptor lacks ProjectExtension.Project,
\* its ProjectId or its Name is read like any other: the read succeeds when the
\* Markups are readable, the Project has all the Markups, and project_id, name
\* and version are "" where the descriptor or the element is missing.
C9_OptionalDescriptors ==
    /\ \A c \in Calls :
          (Done(c) /\ Opened(c) /\ Readable(ArchiveOf(c))) =>
             /\ Succeeded(c)
             /\ Current(c) => /\ readers[calls[c].reader].project # <<>>
                              /\ readers[calls[c].reader].project[1].by = c
    /\ \A p \in Exposed :
          LET a == ArchiveOf(p.by) IN
          /\ Len(p.markups) = Len(BcfNames(a))
          /\ Descriptors(a, "version") = {} => p.version = ""
          /\ (\A d \in Descriptors(a, "bcfp") : ~HasProjectField(d, "ProjectId")) =>
                p.project_id = ""
          /\ (\A d \in Descriptors(a, "bcfp") : ~HasProjectField(d, "Name")) =>
                p.name = ""

\* a container with Markups and a project descriptor without Project was read
C9_Witness ==
    \E p \in Exposed :
       /\ p.markups # <<>>
       /\ Descriptors(ArchiveOf(p.by), "bcfp") # {}
       /\ \A d \in Descriptors(ArchiveOf(p.by), "bcfp") : ~HasProject(d)
       /\ p.project_id = ""
       /\ p.name = ""
       /\ p.version # ""

\* C10: the read error policy.  The promise of read is never rejected; a read
\* that fails assigns no Project, whatever it had read before failing, so every
\* Project exposed has all the Markups of the container of the call that made
\* it, and that call succeeded.
C10_ErrorPolicy ==
    /\ \A c \in Calls : calls[c].rejected = ""
    /\ \A c \in Calls : Failed(c) => \A p \in Exposed : p.by # c
    /\ \A p \in Exposed :
          /\ Succeeded(p.by)
          /\ Len(p.markups) = Len(BcfNames(ArchiveOf(p.by)))

\* a read failed after it had read a valid Markup, and left no Project
C10_Witness ==
    \E c \in Calls :
       /\ Failed(c)
       /\ calls[c].purged_markups # <<>>
       /\ readers[calls[c].reader].project = <<>>
       /\ readers[calls[c].reader].markups # <<>>

\* Markup m, read by call c from the entry `name`, holds what the container
\* call c opened holds: the Topic of its markup document at `name` and, for
\* every Viewpoint, the document at the viewpoint path of that Topic
OwnData(c, name, m) ==
    LET own == ArchiveOf(c)
        doc0 == ArchiveGet(own, name)
    IN /\ doc0 # <<>>
       /\ GetMarkup(doc0[1]).err = ""
       /\ m.topic = GetMarkup(doc0[1]).topic
       /\ \A j \in DOMAIN m.viewpoints :
             LET v == ArchiveGet(own, PathOf(m.topic.guid, m.topic.viewpoints[j].viewpoint))
             IN /\ v # <<>>
                /\ GetViewpoint(v[1]).err = ""
                /\ m.viewpoints[j].info = GetViewpoint(v[1]).info

\* C11: read isolation under interleaving.  Whatever the interleaving of read
\* calls, on two readers or overlapping on one, every markup document and
\* viewpoint document a read has looked up is the one of the container opened
\* from its own input: the Markups a call has finished, the Markup it is
\* reading and the Markups of the Project it exposes hold data of that
\* container only.
C11_ReadIsolation ==
    /\ \A c \in Calls :
          Opened(c) =>
             /\ \A i \in DOMAIN calls[c].purged_markups :
                   OwnData(c, calls[c].markups[i], calls[c].purged_markups[i])
             /\ (InFlight(c) /\ calls[c].markup # <<>>) =>
                   OwnData(c, calls[c].markup[1].markup_name,
                           [topic |-> calls[c].markup[1].topic[1],
                            viewpoints |-> calls[c].markup[1].viewpoints])
    /\ \A p \in Exposed :
          /\ Len(p.markups) = Len(calls[p.by].markups)
          /\ \A i \in DOMAIN p.markups : OwnData(p.by, calls[p.by].markups[i], p.markups[i])

\* the readers on which two calls have been made
Shared == { r \in Readers : \E c, d \in Calls : c # d /\ calls[c].reader = r /\ calls[d].reader = r }

\* C11 on separate instances: a call on a reader no other call uses holds data
\* of its own container only.
C11_SeparateReaders ==
    \A c \in Calls :
       (Opened(c) /\ calls[c].reader \notin Shared) =>
          /\ \A i \in DOMAIN calls[c].purged_markups :
                OwnData(c, calls[c].markups[i], calls[c].purged_markups[i])
          /\ (InFlight(c) /\ calls[c].markup # <<>>) =>
                OwnData(c, calls[c].markup[1].markup_name,
                        [topic |-> calls[c].markup[1].topic[1],
                         viewpoints |-> calls[c].markup[1].viewpoints])

\* every read call made on reader r has completed, and there is one
Settled(r) ==
    /\ \E c \in Calls : calls[c].reader = r
    /\ \A c \in Calls : calls[c].reader = r => Done(c)

\* C12: reader state consistency.  Once the read calls made on a reader have
\* completed, successfully or not, reader.markups holds the Markups of
\* reader.project, as many, with the same Topics, in the same order, and it is
\* empty when reader.project is unset.
C12_MarkupsConsistent ==
    \A r \in Readers :
       Settled(r) =>
          IF readers[r].project = <<>> THEN readers[r].markups = <<>>
          ELSE /\ Len(readers[r].markups) = Len(readers[r].project[1].markups)
               /\ \A i \in DOMAIN readers[r].markups :
                     readers[r].markups[i].topic[1] = readers[r].project[1].markups[i].topic

====
